---- MODULE Spec2Model ----
(***************************************************************************)
(* A model of the donovim editor: the Row (one line of text, indexed by    *)
(* grapheme cluster), the Document (the buffer of rows, with its dirty     *)
(* flag, its file and its search), the viewport scroll and the Editor's    *)
(* key handling.                                                           *)
(*                                                                         *)
(* Text is a sequence of Unicode scalar values, each written as a string   *)
(* of one character.  "^" stands for U+0301 COMBINING ACUTE ACCENT, a      *)
(* scalar value of Grapheme_Cluster_Break class Extend; "\n" and "\t" are  *)
(* of class Control; every other scalar value of the model is of class     *)
(* Other.                                                                  *)
(***************************************************************************)
EXTENDS Integers, Sequences, FiniteSets, TLC

VARIABLES
    row,        \* SpecRow: the Row operated on
    rest,       \* SpecRow: the Row returned by the last split / given to the last append
    rprev,      \* SpecRow: `row` before the last operation
    rop,        \* SpecRow: the last operation, [op, at, c]
    doc,        \* the Document: [rows, file_name, dirty, file_type]
    dprev,      \* SpecDoc: `doc` before the last operation
    dop,        \* SpecDoc: the last operation, [op, at, c]
    disk,       \* the file system: file name -> contents
    saved,      \* the row texts at the last successful save or load
    ed,         \* the Editor
    pc,         \* where the Editor's run loop stands
    prompt      \* the prompt being answered: [kind, result, command, old_position]

rowVars == <<row, rest, rprev, rop>>
docVars == <<doc, dprev, dop>>
fileVars == <<disk, saved>>
edVars == <<ed, pc, prompt>>
vars == <<rowVars, docVars, fileVars, edVars>>

-----------------------------------------------------------------------------
(* Bounds of the model.                                                    *)

\* Most scalar values a Row of SpecRow holds.
MaxRowLen == 4

\* Most rows, and most scalar values in all rows together, that SpecDoc's
\* inserts build.
MaxDocRows == 3
MaxDocLen == 3

\* Most rows, and most scalar values in all rows together, that SpecFile's
\* inserts build.
MaxFileRows == 2
MaxFileLen == 3

\* SpecScroll: the largest cursor and offset coordinate, and the largest
\* terminal (its columns and its lines, two of which are the status bars).
MaxCoord == 3
MaxTermCols == 2
MaxTermLines == 4

\* SpecFind: most rows of a document, most scalar values of a row and of a
\* query.
MaxFindRows == 2
MaxFindLen == 2

\* SpecKeys: most rows, and most scalar values in all rows together, that
\* typing builds; the terminal's columns and lines.
MaxKeysRows == 3
MaxKeysLen == 2
KeysTermCols == 2
KeysTermLines == 4
MaxCarryRows == 3
MaxCarryLen == 2
MaxTripRows == 3
MaxTripLen == 3
MaxSaveRows == 2
MaxSaveLen == 3

\* Spec: most rows, and most scalar values in all rows together, that typing
\* builds; most chars in a prompt's answer, and in a search query; the
\* terminal's columns and lines.
MaxEdRows == 2
MaxEdLen == 2
MaxPrompt == 2
MaxQuery == 1
EdTermCols == 2
EdTermLines == 3

-----------------------------------------------------------------------------
(* Text and grapheme clusters.                                             *)

\* U+0301 and its like: scalar values that extend the preceding cluster.
IsExtend(c) == c = "^"

\* Scalar values of class Control: a cluster boundary on both sides.
IsControl(c) == c \in {"\n", "\t"}

RECURSIVE GraphemesFrom(_, _)
GraphemesFrom(s, acc) ==
    IF s = <<>> THEN acc
    ELSE LET c == Head(s)
             n == Len(acc)
         IN  IF n > 0 /\ IsExtend(c) /\ ~IsControl(acc[n][Len(acc[n])])
             THEN GraphemesFrom(Tail(s), [acc EXCEPT ![n] = Append(@, c)])
             ELSE GraphemesFrom(Tail(s), Append(acc, <<c>>))

\* str.graphemes(true): the extended grapheme clusters of s, in order
\* (UAX #29 rules GB4, GB5, GB9 and GB999 over the model's classes).
Graphemes(s) == GraphemesFrom(s, <<>>)

RECURSIVE Flatten(_)
\* The concatenation of a sequence of strings (push_str in a loop).
Flatten(ss) == IF ss = <<>> THEN <<>> ELSE Head(ss) \o Flatten(Tail(ss))

\* All strings over alphabet A of length at most n.
RECURSIVE StringsUpTo(_, _)
StringsUpTo(A, n) ==
    IF n = 0 THEN {<<>>}
    ELSE LET S == StringsUpTo(A, n - 1)
         IN  S \cup {Append(s, c) : s \in {t \in S : Len(t) = n - 1}, c \in A}

-----------------------------------------------------------------------------
(* Row (src/src/row.rs).  A Row is [string, len, is_highlighted]: the      *)
(* text, the cached grapheme count and the flag Document::unhighlight_rows *)
(* clears.                                                                 *)

\* impl From<&str> for Row
RowFrom(slice) ==
    [string |-> slice, len |-> Len(Graphemes(slice)), is_highlighted |-> FALSE]

\* Row::default()
RowDefault == [string |-> <<>>, len |-> 0, is_highlighted |-> FALSE]

\* Row::len
RowLen(r) == r.len

\* Row::insert
RowInsert(r, at, c) ==
    IF at >= RowLen(r)
    THEN [r EXCEPT !.string = Append(@, c), !.len = @ + 1]
    ELSE LET gs == Graphemes(r.string)
             result == Flatten([i \in 1..Len(gs) |->
                                   IF i - 1 = at THEN <<c>> \o gs[i] ELSE gs[i]])
             length == Len(gs) + (IF at < Len(gs) THEN 1 ELSE 0)
         IN  [r EXCEPT !.string = result, !.len = length]

\* A Row::delete that forgets the early return and drops the grapheme
\* before the one asked for.
RowDeleteOffByOne(r, at) ==
    LET gs == Graphemes(r.string)
        kept == {i \in 1..Len(gs) : i /= at}
    IN  [r EXCEPT !.string = Flatten([i \in 1..Len(gs) |->
                                         IF i \in kept THEN gs[i] ELSE <<>>]),
                  !.len = Cardinality(kept)]

\* Row::delete
RowDelete(r, at) ==
    IF at >= RowLen(r) THEN r
    ELSE LET gs == Graphemes(r.string)
             kept == {i \in 1..Len(gs) : i - 1 /= at}
         IN  [r EXCEPT !.string = Flatten([i \in 1..Len(gs) |->
                                              IF i \in kept THEN gs[i] ELSE <<>>]),
                       !.len = Cardinality(kept)]

\* A Row::split whose comparison is `index <= at`.
RowSplitKeepInclusive(r, at) ==
    LET gs == Graphemes(r.string)
        k == IF at + 1 < Len(gs) THEN at + 1 ELSE Len(gs)
    IN  [r EXCEPT !.string = Flatten(SubSeq(gs, 1, k)), !.len = k]

\* Row::split, what is left in self: the graphemes with index < at.
RowSplitKeep(r, at) ==
    LET gs == Graphemes(r.string)
        k == IF at < Len(gs) THEN at ELSE Len(gs)
    IN  [r EXCEPT !.string = Flatten(SubSeq(gs, 1, k)), !.len = k]

\* Row::split, the Row returned: the graphemes with index >= at.
RowSplitRest(r, at) ==
    LET gs == Graphemes(r.string)
        k == IF at < Len(gs) THEN at ELSE Len(gs)
    IN  [string |-> Flatten(SubSeq(gs, k + 1, Len(gs))),
         len |-> Len(gs) - k,
         is_highlighted |-> FALSE]

\* Row::append
RowAppend(r, new) ==
    [r EXCEPT !.string = @ \o new.string, !.len = @ + new.len]

-----------------------------------------------------------------------------
(* Document (src/src/document.rs).                                         *)

NoneV == [some |-> FALSE]
Some(v) == [some |-> TRUE, val |-> v]

Pos(x, y) == [x |-> x, y |-> y]

\* FileType::from: the lookup from a file name to a file type.  File names
\* are strings of scalar values; a name ending in "r" stands for one with
\* the extension .rs.
FileTypeFrom(file_name) ==
    IF file_name /= <<>> /\ file_name[Len(file_name)] = "r" THEN "Rust" ELSE "No filetype"

\* FileType::default
FileTypeDefault == "No filetype"

\* Document::default()
DocumentDefault ==
    [rows |-> <<>>, file_name |-> NoneV, dirty |-> FALSE, file_type |-> FileTypeDefault]

\* Document::len
DocLen(d) == Len(d.rows)

\* The texts of the rows, in order.
RowTexts(rows) == [i \in 1..Len(rows) |-> rows[i].string]

\* A Document::unhighlight_rows without the one row of lookback.
UnhighlightRowsNoLookback(rows, start) ==
    [i \in 1..Len(rows) |->
        IF i - 1 >= start THEN [rows[i] EXCEPT !.is_highlighted = FALSE] ELSE rows[i]]

\* Document::unhighlight_rows
UnhighlightRows(rows, start) ==
    LET from == IF start >= 1 THEN start - 1 ELSE 0
    IN  [i \in 1..Len(rows) |->
            IF i - 1 >= from THEN [rows[i] EXCEPT !.is_highlighted = FALSE] ELSE rows[i]]

\* Vec::insert(index, element)
VecInsert(v, index, e) == SubSeq(v, 1, index) \o <<e>> \o SubSeq(v, index + 1, Len(v))

\* Vec::remove(index)
VecRemove(v, index) == SubSeq(v, 1, index) \o SubSeq(v, index + 2, Len(v))

\* A Document::insert_newline that puts the split-off row above the row it
\* was split from.
InsertNewlineAbove(rows, at) ==
    IF at.y = Len(rows) THEN Append(rows, RowDefault)
    ELSE VecInsert([rows EXCEPT ![at.y + 1] = RowSplitKeep(@, at.x)],
                   at.y,
                   RowSplitRest(rows[at.y + 1], at.x))

\* Document::insert_newline
InsertNewline(rows, at) ==
    IF at.y = Len(rows) THEN Append(rows, RowDefault)
    ELSE VecInsert([rows EXCEPT ![at.y + 1] = RowSplitKeep(@, at.x)],
                   at.y + 1,
                   RowSplitRest(rows[at.y + 1], at.x))

\* A Document::insert that forgets to set the dirty flag.
DocInsertNotDirty(d, at, c) ==
    IF at.y > DocLen(d) THEN d
    ELSE LET edited ==
                 IF c = "\n" THEN InsertNewline(d.rows, at)
                 ELSE IF at.y = Len(d.rows)
                      THEN Append(d.rows, RowInsert(RowDefault, 0, c))
                      ELSE [d.rows EXCEPT ![at.y + 1] = RowInsert(@, at.x, c)]
         IN  [d EXCEPT !.rows = UnhighlightRows(edited, at.y)]

\* Document::insert
DocInsert(d, at, c) ==
    IF at.y > DocLen(d) THEN d
    ELSE LET edited ==
                 IF c = "\n" THEN InsertNewline(d.rows, at)
                 ELSE IF at.y = Len(d.rows)
                      THEN Append(d.rows, RowInsert(RowDefault, 0, c))
                      ELSE [d.rows EXCEPT ![at.y + 1] = RowInsert(@, at.x, c)]
         IN  [d EXCEPT !.dirty = TRUE, !.rows = UnhighlightRows(edited, at.y)]

\* A Document::delete that marks the document dirty before it looks at
\* the position.
DocDeleteDirtyFirst(d, at) ==
    LET len == DocLen(d)
    IN  IF at.y >= len THEN [d EXCEPT !.dirty = TRUE]
        ELSE LET edited ==
                     IF at.x = RowLen(d.rows[at.y + 1]) /\ at.y < len - 1
                     THEN LET next_row == d.rows[at.y + 2]
                          IN  [VecRemove(d.rows, at.y + 1)
                                  EXCEPT ![at.y + 1] = RowAppend(@, next_row)]
                     ELSE [d.rows EXCEPT ![at.y + 1] = RowDelete(@, at.x)]
             IN  [d EXCEPT !.dirty = TRUE, !.rows = UnhighlightRows(edited, at.y)]

\* Document::delete
DocDelete(d, at) ==
    LET len == DocLen(d)
    IN  IF at.y >= len THEN d
        ELSE LET edited ==
                     IF at.x = RowLen(d.rows[at.y + 1]) /\ at.y < len - 1
                     THEN LET next_row == d.rows[at.y + 2]
                          IN  [VecRemove(d.rows, at.y + 1)
                                  EXCEPT ![at.y + 1] = RowAppend(@, next_row)]
                     ELSE [d.rows EXCEPT ![at.y + 1] = RowDelete(@, at.x)]
             IN  [d EXCEPT !.dirty = TRUE, !.rows = UnhighlightRows(edited, at.y)]

\* Row::highlight: re-tokenizes the row and marks it highlighted.
RowHighlight(r) == [r EXCEPT !.is_highlighted = TRUE]

\* Document::unwrap_until
UnwrapUntil(d, until) == IF until <= Len(d.rows) THEN until ELSE Len(d.rows)

\* A Document::highlight that stops one row early.
DocHighlightShort(d, until) ==
    LET n == IF until.some THEN UnwrapUntil(d, until.val) ELSE Len(d.rows)
    IN  [d EXCEPT !.rows = [i \in 1..Len(d.rows) |->
                               IF i < n THEN RowHighlight(d.rows[i]) ELSE d.rows[i]]]

\* Document::highlight: `until` is NoneV or Some(n).
DocHighlight(d, until) ==
    LET n == IF until.some THEN UnwrapUntil(d, until.val) ELSE Len(d.rows)
    IN  [d EXCEPT !.rows = [i \in 1..Len(d.rows) |->
                               IF i <= n THEN RowHighlight(d.rows[i]) ELSE d.rows[i]]]

\* The position of the first "\n" of s, or 0.
RECURSIVE FirstNewline(_, _)
FirstNewline(s, i) ==
    IF i > Len(s) THEN 0 ELSE IF s[i] = "\n" THEN i ELSE FirstNewline(s, i + 1)

\* str::lines: the lines of a text, each ended by "\n" or "\r\n" (the last
\* one possibly by the end of the text), without their line endings.
RECURSIVE Lines(_)
Lines(s) ==
    IF s = <<>> THEN <<>>
    ELSE LET i == FirstNewline(s, 1)
         IN  IF i = 0 THEN <<s>>
             ELSE LET line == SubSeq(s, 1, i - 1)
                      stripped == IF line /= <<>> /\ line[Len(line)] = "\r"
                                  THEN SubSeq(line, 1, Len(line) - 1) ELSE line
                  IN  <<stripped>> \o Lines(SubSeq(s, i + 1, Len(s)))

\* Whether the file system holds a file of that name.
FileExists(fs, file_name) == file_name \in DOMAIN fs

\* Document::open, given that the file can be read.
DocOpen(fs, file_name) ==
    [rows |-> [i \in 1..Len(Lines(fs[file_name])) |-> RowFrom(Lines(fs[file_name])[i])],
     file_name |-> Some(file_name),
     dirty |-> FALSE,
     file_type |-> FileTypeFrom(file_name)]

\* What Document::save writes when every write succeeds: each row's bytes
\* and a newline.
FileBytes(rows) == Flatten([i \in 1..Len(rows) |-> Append(rows[i].string, "\n")])

\* How a save can end: every write succeeds; File::create fails; or a write
\* fails after `written` scalar values reached the file.
SaveOutcomes(d) ==
    {[kind |-> "ok", written |-> 0], [kind |-> "create_fails", written |-> 0]}
    \cup {[kind |-> "write_fails", written |-> k] : k \in 0..(Len(FileBytes(d.rows)) - 1)}

\* Document::save, the Document afterwards.
DocSave(d, outcome) ==
    IF ~d.file_name.some THEN d
    ELSE IF outcome.kind = "create_fails" THEN d
    ELSE IF outcome.kind = "write_fails"
    THEN [d EXCEPT !.file_type = FileTypeFrom(d.file_name.val)]
    ELSE [d EXCEPT !.file_type = FileTypeFrom(d.file_name.val), !.dirty = FALSE]

\* Document::save, its result: TRUE for Ok(()).
DocSaveOk(d, outcome) == ~d.file_name.some \/ outcome.kind = "ok"

\* Document::save, the file system afterwards: File::create truncates.
DiskAfterSave(fs, d, outcome) ==
    IF ~d.file_name.some \/ outcome.kind = "create_fails" THEN fs
    ELSE LET bytes == IF outcome.kind = "ok" THEN FileBytes(d.rows)
                      ELSE SubSeq(FileBytes(d.rows), 1, outcome.written)
         IN  [n \in DOMAIN fs \cup {d.file_name.val} |->
                 IF n = d.file_name.val THEN bytes ELSE fs[n]]

\* Document::is_dirty
IsDirty(d) == d.dirty

-----------------------------------------------------------------------------
(* SpecDoc: an empty Document, then any sequence of inserts, deletes and   *)
(* highlight passes, at any position.                                      *)

DocChars == {"a", "^", "\n"}
DocPositions == {Pos(x, y) : x \in 0..(MaxDocLen + 1), y \in 0..(MaxDocRows + 1)}

NoOp == [op |-> "from", at |-> 0, c |-> ""]

NoDocOp == [op |-> "new", at |-> Pos(0, 0), c |-> ""]

InitDocVars ==
    /\ doc = DocumentDefault
    /\ dprev = doc
    /\ dop = NoDocOp

InitFileVars ==
    /\ disk = <<>>
    /\ saved = <<>>

InitEdVars ==
    /\ ed = [should_quit |-> FALSE]
    /\ pc = ""
    /\ prompt = [kind |-> ""]

InitRowVars ==
    /\ row = RowDefault
    /\ rest = RowDefault
    /\ rprev = RowDefault
    /\ rop = NoOp

\* The number of scalar values in all rows together.
TotalLen(rows) == Len(Flatten(RowTexts(rows)))

\* The rows stay within the model's bounds when c is inserted at `at`.
InsertFits(d, at, c, maxRows, maxLen) ==
    IF at.y > DocLen(d) THEN TRUE
    ELSE /\ (c = "\n" \/ at.y = DocLen(d)) => DocLen(d) < maxRows
         /\ c /= "\n" => TotalLen(d.rows) < maxLen

DoDocInsert ==
    \E at \in DocPositions, c \in DocChars :
        /\ InsertFits(doc, at, c, MaxDocRows, MaxDocLen)
        /\ doc' = DocInsert(doc, at, c)
        /\ dprev' = doc
        /\ dop' = [op |-> "insert", at |-> at, c |-> c]
        /\ UNCHANGED <<rowVars, fileVars, edVars>>

DoDocDelete ==
    \E at \in DocPositions :
        /\ doc' = DocDelete(doc, at)
        /\ dprev' = doc
        /\ dop' = [op |-> "delete", at |-> at, c |-> ""]
        /\ UNCHANGED <<rowVars, fileVars, edVars>>

DoDocHighlight ==
    \E until \in {NoneV} \cup {Some(n) : n \in 0..(MaxDocRows + 1)} :
        /\ doc' = DocHighlight(doc, until)
        /\ dprev' = doc
        /\ dop' = [op |-> IF until.some THEN "highlight" ELSE "highlight_all",
                    at |-> Pos(0, IF until.some THEN until.val ELSE 0),
                    c |-> ""]
        /\ UNCHANGED <<rowVars, fileVars, edVars>>

InitDoc == InitDocVars /\ InitFileVars /\ InitRowVars /\ InitEdVars

NextDoc == DoDocInsert \/ DoDocDelete \/ DoDocHighlight

SpecDoc == InitDoc /\ [][NextDoc]_vars

-----------------------------------------------------------------------------
(* SpecFile: a Document, empty or opened from a file, then any sequence of *)
(* inserts, deletes, saves (that succeed or fail) and opens.               *)

FileChars == {"a", "\n"}
FileNames == {<<"r">>}
FilePositions == {Pos(x, y) : x \in 0..(MaxFileLen + 1), y \in 0..(MaxFileRows + 1)}

\* The files found at startup: none, or one with two lines, the last
\* without a newline.
InitialDisks == {<<>>, [n \in FileNames |-> <<"a", "\n", "a">>]}

InitFile ==
    /\ doc = DocumentDefault
    /\ dprev = doc
    /\ dop = NoDocOp
    /\ disk \in InitialDisks
    /\ saved = <<>>
    /\ InitRowVars
    /\ InitEdVars

DoFileInsert ==
    \E at \in FilePositions, c \in FileChars :
        /\ InsertFits(doc, at, c, MaxFileRows, MaxFileLen)
        /\ doc' = DocInsert(doc, at, c)
        /\ dprev' = doc
        /\ dop' = [NoDocOp EXCEPT !.op = "insert"]
        /\ UNCHANGED <<rowVars, fileVars, edVars>>

DoFileDelete ==
    \E at \in FilePositions :
        /\ doc' = DocDelete(doc, at)
        /\ dprev' = doc
        /\ dop' = [NoDocOp EXCEPT !.op = "delete"]
        /\ UNCHANGED <<rowVars, fileVars, edVars>>

\* Editor::save binding a name to an unnamed Document (editor.rs:259).
DoSetFileName ==
    \E name \in FileNames :
        /\ ~doc.file_name.some
        /\ doc' = [doc EXCEPT !.file_name = Some(name)]
        /\ dprev' = doc
        /\ dop' = [NoDocOp EXCEPT !.op = "name"]
        /\ UNCHANGED <<rowVars, fileVars, edVars>>

DoFileSave ==
    \E outcome \in SaveOutcomes(doc) :
        /\ doc' = DocSave(doc, outcome)
        /\ disk' = DiskAfterSave(disk, doc, outcome)
        /\ saved' = IF doc.file_name.some /\ outcome.kind = "ok"
                    THEN RowTexts(doc.rows) ELSE saved
        /\ dprev' = doc
        /\ dop' = [NoDocOp EXCEPT !.op = IF DocSaveOk(doc, outcome) THEN "save" ELSE "save_failed",
                                  !.c = outcome.kind]
        /\ UNCHANGED <<rowVars, edVars>>

DoFileOpen ==
    \E name \in FileNames :
        /\ FileExists(disk, name)
        /\ doc' = DocOpen(disk, name)
        /\ saved' = RowTexts(doc'.rows)
        /\ dprev' = doc
        /\ dop' = [NoDocOp EXCEPT !.op = "open"]
        /\ UNCHANGED <<rowVars, disk, edVars>>

NextFile == DoFileInsert \/ DoFileDelete \/ DoSetFileName \/ DoFileSave \/ DoFileOpen

SpecFile == InitFile /\ [][NextFile]_vars

-----------------------------------------------------------------------------
(* SpecRow: a Row made from a string, then any sequence of Row operations. *)

RowChars == {"a", "^"}
RowStrings == StringsUpTo(RowChars, MaxRowLen)
RowPositions == 0..(MaxRowLen + 1)

InitRow ==
    /\ row \in {RowFrom(s) : s \in RowStrings}
    /\ rest = RowDefault
    /\ rprev = row
    /\ rop = NoOp
    /\ InitDocVars
    /\ InitFileVars
    /\ InitEdVars

DoRowInsert ==
    \E at \in RowPositions, c \in RowChars :
        /\ Len(row.string) < MaxRowLen
        /\ row' = RowInsert(row, at, c)
        /\ rprev' = row
        /\ rop' = [op |-> "insert", at |-> at, c |-> c]
        /\ UNCHANGED rest
        /\ UNCHANGED <<docVars, fileVars, edVars>>

DoRowDelete ==
    \E at \in RowPositions :
        /\ row' = RowDelete(row, at)
        /\ rprev' = row
        /\ rop' = [op |-> "delete", at |-> at, c |-> ""]
        /\ UNCHANGED rest
        /\ UNCHANGED <<docVars, fileVars, edVars>>

DoRowSplit ==
    \E at \in RowPositions :
        /\ row' = RowSplitKeep(row, at)
        /\ rest' = RowSplitRest(row, at)
        /\ rprev' = row
        /\ rop' = [op |-> "split", at |-> at, c |-> ""]
        /\ UNCHANGED <<docVars, fileVars, edVars>>

DoRowAppend ==
    \E new \in {rest} \cup {RowFrom(s) : s \in RowStrings} :
        /\ Len(row.string) + Len(new.string) <= MaxRowLen
        /\ row' = RowAppend(row, new)
        /\ rest' = new
        /\ rprev' = row
        /\ rop' = [op |-> "append", at |-> 0, c |-> ""]
        /\ UNCHANGED <<docVars, fileVars, edVars>>

NextRow == DoRowInsert \/ DoRowDelete \/ DoRowSplit \/ DoRowAppend

SpecRow == InitRow /\ [][NextRow]_vars

-----------------------------------------------------------------------------
(* Terminal and Editor (src/src/terminal.rs, src/src/editor.rs).  The      *)
(* Editor is [should_quit, terminal, cursor_position, offset, document,    *)
(* status_message, mode, search_results, highlighted_word], and `panicked` *)
(* records that an unwrap (or another operation that panics) aborted it.   *)

\* usize::saturating_sub
SatSub(a, b) == IF a > b THEN a - b ELSE 0

\* Terminal::default, for a terminal of `cols` columns and `lines` lines.
TerminalDefault(cols, lines) == [width |-> cols, height |-> SatSub(lines, 2)]

\* Document::row: NoneV or Some(row).
DocRow(d, index) == IF index < Len(d.rows) THEN Some(d.rows[index + 1]) ELSE NoneV

\* The length of the row at `index`, or 0 (editor.rs: `if let Some(row) =
\* self.document.row(y) { row.len() } else { 0 }`).
RowLenAt(d, index) == IF DocRow(d, index).some THEN RowLen(DocRow(d, index).val) ELSE 0

\* An Editor::scroll whose second comparison is `y > offset.y + height`.
ScrollLate(e) ==
    LET x == e.cursor_position.x
        y == e.cursor_position.y
        width == e.terminal.width
        height == e.terminal.height
        oy == IF y < e.offset.y THEN y
              ELSE IF y > e.offset.y + height THEN SatSub(y, height) + 1
              ELSE e.offset.y
        ox == IF x < e.offset.x THEN x
              ELSE IF x > e.offset.x + width THEN SatSub(x, width) + 1
              ELSE e.offset.x
    IN  [e EXCEPT !.offset = Pos(ox, oy)]

\* Editor::scroll
Scroll(e) ==
    LET x == e.cursor_position.x
        y == e.cursor_position.y
        width == e.terminal.width
        height == e.terminal.height
        oy == IF y < e.offset.y THEN y
              ELSE IF y >= e.offset.y + height THEN SatSub(y, height) + 1
              ELSE e.offset.y
        ox == IF x < e.offset.x THEN x
              ELSE IF x >= e.offset.x + width THEN SatSub(x, width) + 1
              ELSE e.offset.x
    IN  [e EXCEPT !.offset = Pos(ox, oy)]

\* Editor::default with the Document and the Terminal it found.
EditorDefault(document, terminal, status) ==
    [should_quit |-> FALSE,
     terminal |-> terminal,
     document |-> document,
     cursor_position |-> Pos(0, 0),
     offset |-> Pos(0, 0),
     status_message |-> status,
     mode |-> "Normal",
     search_results |-> <<>>,
     highlighted_word |-> NoneV,
     panicked |-> FALSE]

NoPrompt == [kind |-> "", result |-> <<>>, command |-> "", old_position |-> Pos(0, 0)]

-----------------------------------------------------------------------------
(* SpecScroll: Editor::scroll from any cursor position and any offset, for *)
(* terminals of any small size.                                            *)

ScrollCoords == {Pos(x, y) : x \in 0..MaxCoord, y \in 0..MaxCoord}
ScrollTerminals == {TerminalDefault(cols, lines) : cols \in 0..MaxTermCols, lines \in 0..MaxTermLines}

\* An empty buffer, and one with a line of two columns and an empty line.
ScrollDocuments ==
    {DocumentDefault,
     [DocumentDefault EXCEPT !.rows = <<RowFrom(<<"a", "a">>), RowFrom(<<>>)>>]}

InitScroll ==
    /\ \E d \in ScrollDocuments, t \in ScrollTerminals, c \in ScrollCoords, o \in ScrollCoords :
          ed = [EditorDefault(d, t, "") EXCEPT !.cursor_position = c, !.offset = o]
    /\ pc = "moved"
    /\ prompt = NoPrompt
    /\ InitDocVars
    /\ InitFileVars
    /\ InitRowVars

\* The cursor is put somewhere else (an assignment to cursor_position).
DoSetCursor ==
    \E c \in ScrollCoords :
        /\ c /= ed.cursor_position
        /\ ed' = [ed EXCEPT !.cursor_position = c]
        /\ pc' = "moved"
        /\ UNCHANGED <<prompt, rowVars, docVars, fileVars>>

DoScroll ==
    /\ ed' = Scroll(ed)
    /\ pc' = "scrolled"
    /\ UNCHANGED <<prompt, rowVars, docVars, fileVars>>

NextScroll == DoSetCursor \/ DoScroll

SpecScroll == InitScroll /\ [][NextScroll]_vars

-----------------------------------------------------------------------------
(* Row and Document search, and the word motions' helpers.                 *)

\* char::is_whitespace, over the model's scalar values.
IsWhitespace(c) == c \in {" ", "\t", "\n"}

\* char::is_alphabetic, over the model's scalar values.
IsAlphabetic(c) == c \in {"a", "b"}

\* The least element of a non-empty set of numbers.
Least(S) == CHOOSE i \in S : \A j \in S : i <= j

\* p is a prefix of s.
IsPrefix(p, s) == Len(p) <= Len(s) /\ SubSeq(s, 1, Len(p)) = p

\* Row::find: the first grapheme index at or after `after` at which the
\* row's text holds query, as NoneV or Some(index).
RowFind(r, query, after) ==
    LET gs == Graphemes(r.string)
        hits == {i \in after..(Len(gs) - 1) :
                    IsPrefix(query, Flatten(SubSeq(gs, i + 1, Len(gs))))}
    IN  IF hits = {} THEN NoneV ELSE Some(Least(hits))

\* Row::peek_white: from column x, the end of the current run of
\* non-whitespace: the column of the next whitespace, or the end of the row.
RowPeekWhite(r, x) ==
    LET gs == Graphemes(r.string)
        white == {i \in x..(Len(gs) - 1) : IsWhitespace(gs[i + 1][1])}
    IN  IF white /= {} THEN Least(white) ELSE IF x > Len(gs) THEN x ELSE Len(gs)

\* Row::peek_alpha: from column x, the column of the next alphabetic
\* character, or the end of the row.
RowPeekAlpha(r, x) ==
    LET gs == Graphemes(r.string)
        alpha == {i \in x..(Len(gs) - 1) : IsAlphabetic(gs[i + 1][1])}
    IN  IF alpha /= {} THEN Least(alpha) ELSE IF x > Len(gs) THEN x ELSE Len(gs)

\* A Document::find that keeps the starting column on the later rows.
DocFindKeepsColumn(d, query, after) ==
    LET hit(y) == RowFind(d.rows[y + 1], query, after.x)
        ys == {y \in after.y..(Len(d.rows) - 1) : hit(y).some}
    IN  IF ys = {} THEN NoneV ELSE Some(Pos(hit(Least(ys)).val, Least(ys)))

\* Document::find
DocFind(d, query, after) ==
    LET hit(y) == RowFind(d.rows[y + 1], query, IF y = after.y THEN after.x ELSE 0)
        ys == {y \in after.y..(Len(d.rows) - 1) : hit(y).some}
    IN  IF ys = {} THEN NoneV ELSE Some(Pos(hit(Least(ys)).val, Least(ys)))

RECURSIVE FindAllFrom(_, _, _)
FindAllFrom(d, query, y) ==
    IF y >= Len(d.rows) THEN <<>>
    ELSE LET hit == RowFind(d.rows[y + 1], query, 0)
         IN  (IF hit.some THEN <<Pos(hit.val, y)>> ELSE <<>>) \o FindAllFrom(d, query, y + 1)

\* A Document::find_all that goes on from each match, reporting every
\* occurrence in a row.
DocFindAllOccurrences(d, query) ==
    LET occurrences(y) ==
            {x \in 0..Len(d.rows[y + 1].string) : RowFind(d.rows[y + 1], query, x) = Some(x)}
        RECURSIVE Listed(_, _)
        Listed(y, x) ==
            IF y >= Len(d.rows) THEN <<>>
            ELSE IF x > Len(d.rows[y + 1].string) THEN Listed(y + 1, 0)
            ELSE (IF x \in occurrences(y) THEN <<Pos(x, y)>> ELSE <<>>) \o Listed(y, x + 1)
    IN  Listed(0, 0)

\* Document::find_all
DocFindAll(d, query) == FindAllFrom(d, query, 0)

-----------------------------------------------------------------------------
(* Editor: the handlers of a key.                                          *)

\* Editor::move_cursor; key is "w" for Key::Char('w'), or the name of the
\* Key.
MoveCursor(e, key) ==
    LET terminal_height == e.terminal.height
        x == e.cursor_position.x
        y == e.cursor_position.y
        height == DocLen(e.document)
        width == RowLenAt(e.document, y)
        moved ==
            CASE key = "w" ->
                    LET new_idx == RowPeekWhite(DocRow(e.document, y).val, x)
                    IN  IF new_idx > 0 THEN Pos(new_idx, y)
                        ELSE IF DocRow(e.document, y + 1).some
                        THEN Pos(RowPeekAlpha(DocRow(e.document, y + 1).val, 0), y + 1)
                        ELSE Pos(x, y)
              [] key = "Up" -> Pos(x, SatSub(y, 1))
              [] key = "Down" -> IF y < height THEN Pos(x, y + 1) ELSE Pos(x, y)
              [] key = "Left" -> Pos(SatSub(x, 1), y)
              [] key = "Backspace" ->
                    IF x > 0 THEN Pos(x - 1, y)
                    ELSE IF y > 0 THEN Pos(RowLenAt(e.document, y - 1), y - 1)
                    ELSE Pos(x, y)
              [] key = "Right" -> IF x < width THEN Pos(x + 1, y) ELSE Pos(x, y)
              [] key = "PageUp" ->
                    Pos(x, IF y > terminal_height THEN y - terminal_height ELSE 0)
              [] key = "PageDown" ->
                    Pos(x, IF y + terminal_height < height THEN y + terminal_height ELSE height)
              [] key = "Home" -> Pos(0, y)
              [] key = "End" -> Pos(width, y)
              [] OTHER -> Pos(x, y)
        new_width == RowLenAt(e.document, moved.y)
    IN  IF key = "w" /\ ~DocRow(e.document, y).some
        THEN [e EXCEPT !.panicked = TRUE]
        ELSE [e EXCEPT !.cursor_position =
                 Pos(IF moved.x > new_width THEN new_width ELSE moved.x, moved.y)]

\* The first / last position of a sequence that satisfies a test given as
\* the set of indices that pass it (Iterator::find, rfind).
FirstOf(ps, passing) == IF passing = {} THEN NoneV ELSE Some(ps[Least(passing)])
LastOf(ps, passing) ==
    IF passing = {} THEN NoneV
    ELSE Some(ps[CHOOSE i \in passing : \A j \in passing : j <= i])

\* Editor::process_normal_keypress, for every char but ':' and '/' (which
\* open a prompt).
ProcessNormalKeypress(e, c) ==
    CASE c = "a" -> [MoveCursor(e, "Right") EXCEPT !.mode = "Insert"]
      [] c = "i" -> [e EXCEPT !.mode = "Insert"]
      [] c = "j" -> MoveCursor(e, "Down")
      [] c = "k" -> MoveCursor(e, "Up")
      [] c = "h" -> MoveCursor(e, "Left")
      [] c = "l" -> MoveCursor(e, "Right")
      [] c = "w" -> MoveCursor(e, "w")
      [] c = "o" ->
            LET down == MoveCursor(e, "Down")
            IN  [down EXCEPT !.document = DocInsert(@, down.cursor_position, "\n"),
                             !.mode = "Insert"]
      [] c = "n" ->
            LET hit == FirstOf(e.search_results,
                               {i \in 1..Len(e.search_results) :
                                   e.search_results[i].y > e.cursor_position.y})
            IN  IF hit.some THEN [e EXCEPT !.cursor_position = hit.val] ELSE e
      [] c = "N" ->
            LET hit == LastOf(e.search_results,
                              {i \in 1..Len(e.search_results) :
                                  e.search_results[i].y < e.cursor_position.y})
            IN  IF hit.some THEN [e EXCEPT !.cursor_position = hit.val] ELSE e
      [] OTHER -> e

\* Editor::process_insert_keypress
ProcessInsertKeypress(e, c) ==
    MoveCursor([e EXCEPT !.document = DocInsert(@, e.cursor_position, c)],
               IF c = "\n" THEN "Down" ELSE "Right")

\* A key is [k, c]: k names the Key, c is the char of a Key::Char.
Key(k, c) == [k |-> k, c |-> c]

\* Editor::process_keypress, the match on the key.
MatchKey(e, key) ==
    CASE key.k = "Esc" -> [e EXCEPT !.mode = "Normal"]
      [] key.k = "Char" ->
            IF e.mode = "Insert" THEN ProcessInsertKeypress(e, key.c)
            ELSE ProcessNormalKeypress(e, key.c)
      [] key.k = "Delete" -> [e EXCEPT !.document = DocDelete(@, e.cursor_position)]
      [] key.k = "Backspace" ->
            IF e.cursor_position.x > 0 \/ e.cursor_position.y > 0
            THEN LET back == MoveCursor(e, "Backspace")
                 IN  [back EXCEPT !.document = DocDelete(@, back.cursor_position)]
            ELSE e
      [] key.k \in {"Up", "Down", "Left", "Right", "PageUp", "PageDown", "End", "Home"} ->
            MoveCursor(e, key.k)
      [] OTHER -> e

\* What follows a handler: nothing more once it panicked, else f.
ThenScroll(e) == IF e.panicked THEN e ELSE Scroll(e)

\* Editor::process_keypress for a key that opens no prompt.
ProcessKeypress(e, key) == ThenScroll(MatchKey(e, key))

\* Editor::save once the Document has a file name.
SaveNamed(e, outcome) ==
    [e EXCEPT !.document = DocSave(@, outcome),
              !.status_message = IF DocSaveOk(e.document, outcome)
                                 THEN "File saved successfully."
                                 ELSE "Error writing to disk."]

\* Editor::process_command, the match on a command, for a Document that
\* has a file name or a command that does not save.
MatchCommand(e, command, outcome) ==
    CASE command = <<"w">> -> SaveNamed(e, outcome)
      [] command = <<"q">> ->
            IF IsDirty(e.document)
            THEN [e EXCEPT !.status_message = "Document has unsaved changes! Add ! to override."]
            ELSE [e EXCEPT !.should_quit = TRUE]
      [] command = <<"q", "!">> -> [e EXCEPT !.should_quit = TRUE]
      [] command = <<"w", "q">> -> [SaveNamed(e, outcome) EXCEPT !.should_quit = TRUE]
      [] OTHER -> [e EXCEPT !.status_message = "Unrecognized Command"]

\* Editor::save from its "Save as: " prompt on, then the rest of
\* process_command: new_name is the prompt's answer, <<>> for None.
SaveAs(e, new_name, command, outcome) ==
    LET saved_e == IF new_name = <<>>
                   THEN [e EXCEPT !.status_message = "Save aborted."]
                   ELSE SaveNamed([e EXCEPT !.document.file_name = Some(new_name)], outcome)
    IN  IF command = <<"w", "q">> THEN [saved_e EXCEPT !.should_quit = TRUE] ELSE saved_e

\* An Editor::search that leaves the cursor where the preview put it when
\* the prompt returned nothing.
SearchDoneKeepsPreview(e, query, old_position) ==
    LET found == DocFind(e.document, query, old_position)
        moved == IF query /= <<>>
                 THEN IF found.some
                      THEN [e EXCEPT !.cursor_position = found.val,
                                     !.search_results = DocFindAll(e.document, query)]
                      ELSE [e EXCEPT !.status_message = "Pattern not found"]
                 ELSE Scroll(e)
    IN  [moved EXCEPT !.highlighted_word = NoneV]

\* Editor::search once its prompt returned: query is the answer, <<>> for
\* None.
SearchDone(e, query, old_position) ==
    LET found == DocFind(e.document, query, old_position)
        moved == IF query /= <<>>
                 THEN IF found.some
                      THEN [e EXCEPT !.cursor_position = found.val,
                                     !.search_results = DocFindAll(e.document, query)]
                      ELSE [e EXCEPT !.status_message = "Pattern not found"]
                 ELSE Scroll([e EXCEPT !.cursor_position = old_position])
    IN  [moved EXCEPT !.highlighted_word = NoneV]

\* The closure Editor::search gives to prompt, called after every key that
\* does not end the prompt.
SearchCallback(e, query) ==
    LET found == DocFind(e.document, query, e.cursor_position)
        moved == IF found.some THEN Scroll([e EXCEPT !.cursor_position = found.val]) ELSE e
    IN  [moved EXCEPT !.highlighted_word = Some(query)]

\* The bytes of a scalar value in UTF-8: U+0301 takes two.
Utf8Len(c) == IF c = "^" THEN 2 ELSE 1

\* char::is_control
IsControlChar(c) == c \in {"\n", "\t"}

\* An Editor::refresh_screen that highlights up to the first visible row
\* only.
RefreshScreenToOffset(e) ==
    IF e.should_quit THEN e
    ELSE [e EXCEPT !.document = DocHighlight(@, Some(e.offset.y))]

\* Editor::refresh_screen, what it changes: the highlighting of the rows up
\* to the last visible one.
RefreshScreen(e) ==
    IF e.should_quit THEN e
    ELSE [e EXCEPT !.document =
             DocHighlight(@, Some(e.offset.y + e.terminal.height))]

-----------------------------------------------------------------------------
(* Spec: the Editor's run loop.  pc is "refresh" before refresh_screen,    *)
(* "read" before the read of a key in process_keypress, "prompt_refresh"   *)
(* and "prompt_read" for the same two places in the loop of prompt, "done" *)
(* once the loop is left and "panic" once the Editor panicked.  The Editor *)
(* reads no file after it started, so what its saves write is left to      *)
(* SpecFile: here a save only succeeds or fails.  From the '/' key to the  *)
(* end of its prompt dop holds what the key found (the cursor in at, the   *)
(* search results in found, the lines and the dirty flag), and right after *)
(* the end of the prompt also the key that ended it (c), the answer        *)
(* (query) and whether the preview had moved the cursor (previewed).       *)

EdTerminals == {TerminalDefault(EdTermCols, EdTermLines)}

\* The file named on the command line, when there is one: two lines, the
\* second starting with a blank.
EdFileName == <<"r">>
EdFile == <<"a", "\n", " ", "a", "\n">>
EdDisks == {<<>>, [n \in {EdFileName} |-> EdFile]}

NormalChars == {"a", "i", "j", "k", "h", "l", "w", "o", "n", "N", "x"}
InsertChars == {"a", "^", "\n"}
OtherKeys == {"Esc", "Delete", "Backspace", "Up", "Down", "Left", "Right",
              "PageUp", "PageDown", "End", "Home", "CtrlQ"}

\* The chars typed into each prompt.
PromptChars(kind) ==
    CASE kind = ":" -> {"w", "q", "!"}
      [] kind = "/" -> {"a", "^"}
      [] OTHER -> {"r"}

\* The outcomes of a save that the Editor can tell apart.
EdSaveOutcomes(d) == {o \in SaveOutcomes(d) : o.written = 0}

Init ==
    /\ \E args \in {<<>>, <<EdFileName>>}, t \in EdTerminals :
          /\ disk \in IF args = <<>> THEN {<<>>} ELSE EdDisks
          /\ ed = IF args = <<>>
                  THEN EditorDefault(DocumentDefault, t, "HELP")
                  ELSE IF FileExists(disk, args[1])
                  THEN EditorDefault(DocOpen(disk, args[1]), t, "HELP")
                  ELSE EditorDefault(DocumentDefault, t, "ERR: Could not open file")
    /\ pc = "refresh"
    /\ prompt = NoPrompt
    /\ saved = <<>>
    /\ InitDocVars
    /\ InitRowVars

\* A run loop that goes back to the read of a key after process_keypress.
AfterKeyToRead(e) == IF e.panicked THEN "panic" ELSE IF e.should_quit THEN "done" ELSE "read"

\* Where the run loop goes after process_keypress.
AfterKey(e) == IF e.panicked THEN "panic" ELSE IF e.should_quit THEN "done" ELSE "refresh"

\* The key keeps the rows within the model's bounds.
KeyFits(e, key) ==
    IF key.k /= "Char" THEN TRUE
    ELSE IF e.mode = "Insert"
    THEN InsertFits(e.document, e.cursor_position, key.c, MaxEdRows, MaxEdLen)
    ELSE key.c = "o" => DocLen(e.document) < MaxEdRows

\* run: refresh_screen at the top of the loop.
DoRefreshScreen ==
    /\ pc = "refresh"
    /\ ed' = RefreshScreen(ed)
    /\ pc' = "read"
    /\ dop' = NoDocOp
    /\ UNCHANGED <<prompt, rowVars, doc, dprev, fileVars>>

\* run: process_keypress for a key that opens no prompt, then the test of
\* should_quit.
DoKeypress ==
    /\ pc = "read"
    /\ \E key \in {Key(k, "") : k \in OtherKeys}
                  \cup {Key("Char", c) : c \in IF ed.mode = "Insert" THEN InsertChars
                                                ELSE NormalChars} :
          /\ KeyFits(ed, key)
          /\ ed' = ProcessKeypress(ed, key)
          /\ pc' = AfterKey(ed')
    /\ UNCHANGED <<prompt, rowVars, docVars, fileVars>>

\* process_normal_keypress(':'): process_command calls prompt.
DoCommandKey ==
    /\ pc = "read"
    /\ ed.mode = "Normal"
    /\ prompt' = [NoPrompt EXCEPT !.kind = ":"]
    /\ pc' = "prompt_refresh"
    /\ UNCHANGED <<ed, rowVars, docVars, fileVars>>

\* process_normal_keypress('/'): search remembers the cursor and calls
\* prompt.
DoSearchKey ==
    /\ pc = "read"
    /\ ed.mode = "Normal"
    /\ prompt' = [NoPrompt EXCEPT !.kind = "/", !.old_position = ed.cursor_position]
    /\ pc' = "prompt_refresh"
    /\ dop' = [op |-> "/", at |-> ed.cursor_position, c |-> "",
               found |-> ed.search_results,
               lines |-> RowTexts(ed.document.rows),
               dirty |-> ed.document.dirty,
               query |-> <<>>,
               previewed |-> FALSE]
    /\ UNCHANGED <<ed, rowVars, doc, dprev, fileVars>>

\* prompt: the status message and refresh_screen at the top of its loop.
DoPromptRefresh ==
    /\ pc = "prompt_refresh"
    /\ ed' = RefreshScreen([ed EXCEPT !.status_message = "prompt"])
    /\ pc' = "prompt_read"
    /\ UNCHANGED <<prompt, rowVars, docVars, fileVars>>

\* prompt: a key that does not end it, then the callback.  Backspace cuts
\* one byte off the answer (String::truncate), which panics inside a
\* scalar value of several bytes.
DoPromptKey ==
    /\ pc = "prompt_read"
    /\ \E key \in {Key("Backspace", ""), Key("Up", "")}
                  \cup {Key("Char", c) : c \in PromptChars(prompt.kind)} :
          LET result == prompt.result
              cut == key.k = "Backspace" /\ result /= <<>>
              splits == cut /\ Utf8Len(result[Len(result)]) > 1
              answer == IF cut THEN SubSeq(result, 1, Len(result) - 1)
                        ELSE IF key.k = "Char" /\ ~IsControlChar(key.c)
                        THEN Append(result, key.c)
                        ELSE result
          IN  /\ key.k = "Char" =>
                     Len(result) < (IF prompt.kind = "/" THEN MaxQuery ELSE MaxPrompt)
              /\ IF splits
                 THEN /\ ed' = [ed EXCEPT !.panicked = TRUE]
                      /\ pc' = "panic"
                      /\ UNCHANGED prompt
                 ELSE /\ prompt' = [prompt EXCEPT !.result = answer]
                      /\ ed' = IF prompt.kind = "/" THEN SearchCallback(ed, answer) ELSE ed
                      /\ pc' = "prompt_refresh"
    /\ UNCHANGED <<rowVars, docVars, fileVars>>

\* The answer prompt returns when key ends it: <<>> stands for None.
PromptAnswer(key) == IF key = "Esc" THEN <<>> ELSE prompt.result

\* prompt(":") ends (Enter or Esc) and process_command runs the command,
\* or Editor::save opens the "Save as: " prompt.
DoCommandEnd ==
    /\ pc = "prompt_read"
    /\ prompt.kind = ":"
    /\ \E key \in {"Enter", "Esc"} :
          LET command == PromptAnswer(key)
              e == [ed EXCEPT !.status_message = ""]
              saves == command \in {<<"w">>, <<"w", "q">>}
          IN  IF command = <<>>
              THEN /\ ed' = [e EXCEPT !.panicked = TRUE]
                   /\ pc' = "panic"
                   /\ prompt' = NoPrompt
              ELSE IF saves /\ ~e.document.file_name.some
              THEN /\ ed' = e
                   /\ pc' = "prompt_refresh"
                   /\ prompt' = [NoPrompt EXCEPT !.kind = "Save as: ", !.command = command]
              ELSE \E outcome \in IF saves THEN EdSaveOutcomes(e.document)
                                  ELSE {[kind |-> "ok", written |-> 0]} :
                      /\ ed' = ThenScroll(MatchCommand(e, command, outcome))
                      /\ pc' = AfterKey(ed')
                      /\ prompt' = NoPrompt
    /\ UNCHANGED <<rowVars, docVars, fileVars>>

\* prompt("Save as: ") ends and Editor::save, then process_command, go on.
DoSaveAsEnd ==
    /\ pc = "prompt_read"
    /\ prompt.kind = "Save as: "
    /\ \E key \in {"Enter", "Esc"} :
          LET new_name == PromptAnswer(key)
              e == [ed EXCEPT !.status_message = ""]
          IN  \E outcome \in IF new_name = <<>> THEN {[kind |-> "ok", written |-> 0]}
                             ELSE EdSaveOutcomes(e.document) :
                  /\ ed' = ThenScroll(SaveAs(e, new_name, prompt.command, outcome))
                  /\ pc' = AfterKey(ed')
                  /\ prompt' = NoPrompt
    /\ UNCHANGED <<rowVars, docVars, fileVars>>

\* prompt("/") ends and Editor::search goes on.
DoSearchEnd ==
    /\ pc = "prompt_read"
    /\ prompt.kind = "/"
    /\ \E key \in {"Enter", "Esc"} :
          LET e == [ed EXCEPT !.status_message = ""]
          IN  /\ ed' = ThenScroll(SearchDone(e, PromptAnswer(key), prompt.old_position))
              /\ pc' = AfterKey(ed')
              /\ prompt' = NoPrompt
              /\ dop' = [dop EXCEPT !.op = "search", !.c = key,
                                    !.query = PromptAnswer(key),
                                    !.previewed = ed.cursor_position /= prompt.old_position]
    /\ UNCHANGED <<rowVars, doc, dprev, fileVars>>

Next ==
    \/ DoRefreshScreen
    \/ DoKeypress
    \/ DoCommandKey
    \/ DoSearchKey
    \/ DoPromptRefresh
    \/ DoPromptKey
    \/ DoCommandEnd
    \/ DoSaveAsEnd
    \/ DoSearchEnd

Spec == Init /\ [][Next]_vars

-----------------------------------------------------------------------------
(* SpecFind: a Document made of rows read from strings, then calls of      *)
(* Document::find and Document::find_all; dop holds the last call and what *)
(* it returned.                                                            *)

FindChars == {"a", "b"}
FindStrings == StringsUpTo(FindChars, MaxFindLen)
FindQueries == FindStrings \ {<<>>}
FindPositions == {Pos(x, y) : x \in 0..(MaxFindLen + 1), y \in 0..MaxFindRows}

\* The Documents with at most n rows, each read from a string.
RECURSIVE FindRows(_)
FindRows(n) ==
    IF n = 0 THEN {<<>>}
    ELSE FindRows(n - 1)
         \cup {Append(rows, RowFrom(s)) :
                  rows \in {v \in FindRows(n - 1) : Len(v) = n - 1}, s \in FindStrings}

InitFind ==
    /\ doc \in {[DocumentDefault EXCEPT !.rows = rows] : rows \in FindRows(MaxFindRows)}
    /\ dprev = doc
    /\ dop = NoDocOp
    /\ InitFileVars
    /\ InitRowVars
    /\ InitEdVars

DoFind ==
    \E query \in FindQueries, after \in FindPositions :
        /\ dop' = [op |-> "find", at |-> after, c |-> query,
                   found |-> DocFind(doc, query, after)]
        /\ UNCHANGED <<doc, dprev, rowVars, fileVars, edVars>>

DoFindAll ==
    \E query \in FindQueries :
        /\ dop' = [op |-> "find_all", at |-> Pos(0, 0), c |-> query,
                   found |-> DocFindAll(doc, query)]
        /\ UNCHANGED <<doc, dprev, rowVars, fileVars, edVars>>

NextFind == DoFind \/ DoFindAll

SpecFind == InitFind /\ [][NextFind]_vars

-----------------------------------------------------------------------------
(* SpecKeys: the Editor's run loop over the keys that open no prompt, one  *)
(* iteration (refresh_screen, then process_keypress) per step.  dprev and  *)
(* dop hold what the last key found: the Document and, in dop, the handler *)
(* the key went to (op), the cursor (at) and the key's char (c).           *)

KeysTerminals == {TerminalDefault(KeysTermCols, KeysTermLines)}

KeysInsertChars == {"a", "^", "\n"}

\* The handler a key goes to: the key's name, or for a char "insert" in
\* Insert mode and the char itself in Normal mode.
HandlerOf(e, key) ==
    IF key.k /= "Char" THEN key.k ELSE IF e.mode = "Insert" THEN "insert" ELSE key.c

\* The key keeps the rows within the bounds of SpecKeys.
KeysFit(e, key) ==
    IF key.k /= "Char" THEN TRUE
    ELSE IF e.mode = "Insert"
    THEN InsertFits(e.document, e.cursor_position, key.c, MaxKeysRows, MaxKeysLen)
    ELSE key.c = "o" => DocLen(e.document) < MaxKeysRows

InitKeys ==
    /\ \E document \in {DocumentDefault, DocOpen([n \in {EdFileName} |-> EdFile], EdFileName)},
          t \in KeysTerminals :
          ed = EditorDefault(document, t, "HELP")
    /\ pc = "refresh"
    /\ prompt = NoPrompt
    /\ doc = DocumentDefault
    /\ dprev = DocumentDefault
    /\ dop = NoDocOp
    /\ InitFileVars
    /\ InitRowVars

\* run: one iteration of the loop, for a key that opens no prompt.
DoKey ==
    /\ pc = "refresh"
    /\ \E key \in {Key(k, "") : k \in OtherKeys}
                  \cup {Key("Char", c) : c \in IF ed.mode = "Insert" THEN KeysInsertChars
                                                ELSE NormalChars} :
          LET e == RefreshScreen(ed)
          IN  /\ KeysFit(e, key)
              /\ ed' = ProcessKeypress(e, key)
              /\ pc' = AfterKey(ed')
              /\ dprev' = e.document
              /\ dop' = [op |-> HandlerOf(e, key), at |-> e.cursor_position, c |-> key.c]
    /\ UNCHANGED <<prompt, doc, rowVars, fileVars>>

NextKeys == DoKey

SpecKeys == InitKeys /\ [][NextKeys]_vars

-----------------------------------------------------------------------------
(* SpecCarry: a Document made of rows read from strings over the comment   *)
(* delimiters, then highlight passes; dop holds the last pass and, in      *)
(* carry, the start_with_comment each of its rows was highlighted with.    *)

\* FileType::highlighting_options, the part that decides the carry: whether
\* the file type has line comments ("//") and multiline comments ("/*" to
\* "*/").
HighlightingOptions(file_type) ==
    [comments |-> file_type = "Rust", multiline_comments |-> file_type = "Rust"]

\* s holds the two scalar values a, b at index i (1-based).
HoldsPair(s, i, a, b) == i + 1 <= Len(s) /\ s[i] = a /\ s[i + 1] = b

\* Row::highlight, the scan from index i on: whether the row ends inside a
\* multiline comment.
RECURSIVE ScanCarry(_, _, _, _)
ScanCarry(s, opts, i, in_comment) ==
    IF i > Len(s) THEN in_comment
    ELSE IF in_comment
    THEN IF HoldsPair(s, i, "*", "/") THEN ScanCarry(s, opts, i + 2, FALSE)
         ELSE ScanCarry(s, opts, i + 1, TRUE)
    ELSE IF opts.comments /\ HoldsPair(s, i, "/", "/") THEN FALSE
    ELSE IF opts.multiline_comments /\ HoldsPair(s, i, "/", "*")
    THEN ScanCarry(s, opts, i + 2, TRUE)
    ELSE ScanCarry(s, opts, i + 1, FALSE)

\* Row::highlight, what it returns: the carry out of a row highlighted with
\* start_with_comment.
RowCarryOut(r, opts, start_with_comment) ==
    ScanCarry(r.string, opts, 1, start_with_comment /\ opts.multiline_comments)

\* A pass that hands every row the carry it starts the pass with.
RECURSIVE CarriesUnthreaded(_, _, _, _, _)
CarriesUnthreaded(rows, opts, i, start_with_comment, acc) ==
    IF i > Len(rows) THEN acc
    ELSE CarriesUnthreaded(rows, opts, i + 1, start_with_comment,
                           Append(acc, start_with_comment))

\* Document::highlight, the loop over rows[..until] from row i on: acc
\* collects the start_with_comment handed to each row.
RECURSIVE CarriesFrom(_, _, _, _, _)
CarriesFrom(rows, opts, i, start_with_comment, acc) ==
    IF i > Len(rows) THEN acc
    ELSE CarriesFrom(rows, opts, i + 1,
                     RowCarryOut(rows[i], opts, start_with_comment),
                     Append(acc, start_with_comment))

\* Document::highlight: the start_with_comment of each row of the pass.
DocHighlightCarries(d, until) ==
    LET n == IF until.some THEN UnwrapUntil(d, until.val) ELSE Len(d.rows)
    IN  CarriesFrom(SubSeq(d.rows, 1, n), HighlightingOptions(d.file_type), 1, FALSE, <<>>)

CarryChars == {"/", "*", "a"}
CarryStrings == StringsUpTo(CarryChars, MaxCarryLen)

\* The sequences of at most n rows, each read from a string.
RECURSIVE CarryRows(_)
CarryRows(n) ==
    IF n = 0 THEN {<<>>}
    ELSE CarryRows(n - 1)
         \cup {Append(rows, RowFrom(s)) :
                  rows \in {v \in CarryRows(n - 1) : Len(v) = n - 1}, s \in CarryStrings}

InitCarry ==
    /\ doc \in {[DocumentDefault EXCEPT !.rows = rows, !.file_type = t] :
                   rows \in CarryRows(MaxCarryRows), t \in {FileTypeDefault, "Rust"}}
    /\ dprev = doc
    /\ dop = NoDocOp
    /\ InitFileVars
    /\ InitRowVars
    /\ InitEdVars

\* Document::highlight(word, until)
DoHighlightPass ==
    \E until \in {NoneV} \cup {Some(n) : n \in 0..(MaxCarryRows + 1)} :
        /\ doc' = DocHighlight(doc, until)
        /\ dprev' = doc
        /\ dop' = [op |-> "highlight",
                   at |-> Pos(0, IF until.some THEN UnwrapUntil(doc, until.val)
                                 ELSE Len(doc.rows)),
                   c |-> "",
                   carry |-> DocHighlightCarries(doc, until)]
        /\ UNCHANGED <<rowVars, fileVars, edVars>>

NextCarry == DoHighlightPass

SpecCarry == InitCarry /\ [][NextCarry]_vars

-----------------------------------------------------------------------------
(* SpecTrip: an empty Document, then inserts and deletes at any position;  *)
(* the insert of a newline inside the Document may be followed by the      *)
(* delete at the same position.  Between the two, and after the second,    *)
(* dprev holds the Document before the newline and dop.at the position.    *)

TripPositions == {Pos(x, y) : x \in 0..(MaxTripLen + 1), y \in 0..(MaxTripRows + 1)}

InitTrip == InitDocVars /\ InitFileVars /\ InitRowVars /\ InitEdVars

\* Document::insert
DoTripInsert ==
    \E at \in TripPositions, c \in DocChars :
        /\ InsertFits(doc, at, c, MaxTripRows, MaxTripLen)
        /\ doc' = DocInsert(doc, at, c)
        /\ dprev' = doc'
        /\ dop' = [NoDocOp EXCEPT !.op = "insert"]
        /\ UNCHANGED <<rowVars, fileVars, edVars>>

\* Document::delete
DoTripDelete ==
    \E at \in TripPositions :
        /\ doc' = DocDelete(doc, at)
        /\ dprev' = doc'
        /\ dop' = [NoDocOp EXCEPT !.op = "delete"]
        /\ UNCHANGED <<rowVars, fileVars, edVars>>

\* Document::insert(at, '\n') on a row of the Document.
DoTripNewline ==
    \E at \in TripPositions :
        /\ at.y < DocLen(doc)
        /\ InsertFits(doc, at, "\n", MaxTripRows, MaxTripLen)
        /\ doc' = DocInsert(doc, at, "\n")
        /\ dprev' = doc
        /\ dop' = [op |-> "newline", at |-> at, c |-> "\n"]
        /\ UNCHANGED <<rowVars, fileVars, edVars>>

\* Document::delete(at) right after Document::insert(at, '\n').
DoTripDeleteBack ==
    /\ dop.op = "newline"
    /\ doc' = DocDelete(doc, dop.at)
    /\ dop' = [dop EXCEPT !.op = "newline_deleted"]
    /\ UNCHANGED <<dprev, rowVars, fileVars, edVars>>

NextTrip == DoTripInsert \/ DoTripDelete \/ DoTripNewline \/ DoTripDeleteBack

SpecTrip == InitTrip /\ [][NextTrip]_vars

-----------------------------------------------------------------------------
(* SpecSave: a Document, empty or opened from a file, then inserts and     *)
(* deletes at any position and saves that succeed; a save may be followed  *)
(* by the open of the file it wrote.  After a save, and after the open     *)
(* that follows it, dprev holds the Document that was saved.               *)

SavePositions == {Pos(x, y) : x \in 0..(MaxSaveLen + 1), y \in 0..(MaxSaveRows + 1)}

\* The files found at startup: one with two lines, the last without a
\* newline, and one whose line ends in a carriage return before its "\r\n".
SaveFiles == {<<"a", "\n", "a">>, <<"a", "\r", "\r", "\n">>}

InitSave ==
    /\ \E name \in FileNames, file \in SaveFiles :
          /\ disk = [n \in {name} |-> file]
          /\ doc \in {DocumentDefault, DocOpen(disk, name)}
    /\ dprev = doc
    /\ dop = NoDocOp
    /\ saved = <<>>
    /\ InitRowVars
    /\ InitEdVars

\* Document::insert
DoSaveInsert ==
    \E at \in SavePositions, c \in FileChars :
        /\ InsertFits(doc, at, c, MaxSaveRows, MaxSaveLen)
        /\ doc' = DocInsert(doc, at, c)
        /\ dprev' = doc'
        /\ dop' = [NoDocOp EXCEPT !.op = "insert"]
        /\ UNCHANGED <<rowVars, fileVars, edVars>>

\* Document::delete
DoSaveDelete ==
    \E at \in SavePositions :
        /\ doc' = DocDelete(doc, at)
        /\ dprev' = doc'
        /\ dop' = [NoDocOp EXCEPT !.op = "delete"]
        /\ UNCHANGED <<rowVars, fileVars, edVars>>

\* Editor::save binding a name to an unnamed Document (editor.rs:259).
DoSaveName ==
    \E name \in FileNames :
        /\ ~doc.file_name.some
        /\ doc' = [doc EXCEPT !.file_name = Some(name)]
        /\ dprev' = doc'
        /\ dop' = [NoDocOp EXCEPT !.op = "name"]
        /\ UNCHANGED <<rowVars, fileVars, edVars>>

\* Document::save of a named Document, every write succeeding.
DoSaveWrite ==
    LET outcome == [kind |-> "ok", written |-> 0]
    IN  /\ doc.file_name.some
        /\ doc' = DocSave(doc, outcome)
        /\ disk' = DiskAfterSave(disk, doc, outcome)
        /\ dprev' = doc
        /\ dop' = [NoDocOp EXCEPT !.op = "save"]
        /\ UNCHANGED <<rowVars, saved, edVars>>

\* Document::open of the file just saved.
DoSaveOpen ==
    /\ dop.op = "save"
    /\ doc' = DocOpen(disk, dprev.file_name.val)
    /\ dop' = [NoDocOp EXCEPT !.op = "open"]
    /\ UNCHANGED <<dprev, rowVars, fileVars, edVars>>

NextSave == DoSaveInsert \/ DoSaveDelete \/ DoSaveName \/ DoSaveWrite \/ DoSaveOpen

SpecSave == InitSave /\ [][NextSave]_vars

-----------------------------------------------------------------------------
(* Properties of the Row operations, over SpecRow.                         *)

\* The number of extended grapheme clusters of a string.
GraphemeCount(s) == Len(Graphemes(s))

\* Some cluster of s holds more than one scalar value.
HasMultiScalarCluster(s) == \E i \in 1..GraphemeCount(s) : Len(Graphemes(s)[i]) > 1

\* The graphemes of s with index in [lo, hi), concatenated.
GraphemeRange(s, lo, hi) ==
    LET gs == Graphemes(s)
    IN  Flatten([i \in 1..Len(gs) |-> IF lo <= i - 1 /\ i - 1 < hi THEN gs[i] ELSE <<>>])

\* c, put before grapheme `at` of s, is a cluster of its own: it joins
\* neither the cluster before it nor the one after it.
OwnCluster(s, at, c) ==
    LET gs == Graphemes(s)
        k == IF at < Len(gs) THEN at ELSE Len(gs)
        pre == SubSeq(gs, 1, k)
        post == SubSeq(gs, k + 1, Len(gs))
    IN  Graphemes(Flatten(pre) \o <<c>> \o Flatten(post)) = pre \o << <<c>> >> \o post

\* C5: after every sequence of Row operations the cached length equals the
\* number of extended grapheme clusters of the content.
C5_CachedLenIsGraphemeCount == row.len = GraphemeCount(row.string)

\* C6 as stated: for every content, every position at and every character
\* c, insert(at, c) then delete(at) restores the content and the count.
C6_InsertThenDeleteIsIdentity ==
    rop.op = "insert" =>
        /\ RowDelete(row, rop.at).string = rprev.string
        /\ RowDelete(row, rop.at).len = rprev.len

\* C6 amended: on a line whose count is accurate, for a position at <= length
\* and a character that is a grapheme cluster of its own at that position,
\* insert(at, c) then delete(at) restores the content and the count.
C6_InsertThenDeleteIsIdentityInRange ==
    ( /\ rop.op = "insert"
      /\ rprev.len = GraphemeCount(rprev.string)
      /\ rop.at <= rprev.len
      /\ OwnCluster(rprev.string, rop.at, rop.c) ) =>
        /\ RowDelete(row, rop.at).string = rprev.string
        /\ RowDelete(row, rop.at).len = rprev.len

\* C6 witness: a character was inserted inside a line holding a
\* multi-codepoint cluster, and deleting at the same position undoes it.
C6_Witness ==
    /\ rop.op = "insert"
    /\ rprev.len = GraphemeCount(rprev.string)
    /\ HasMultiScalarCluster(rprev.string)
    /\ 0 < rop.at /\ rop.at < rprev.len
    /\ OwnCluster(rprev.string, rop.at, rop.c)
    /\ row.string /= rprev.string
    /\ RowDelete(row, rop.at).string = rprev.string

\* C7: split(at), at in [0, length], leaves graphemes [0, at) in the line
\* and returns [at, end); appending the returned line onto the truncated
\* one gives back the original text and the original grapheme count.
C7_SplitThenAppendReconstructs ==
    (rop.op = "split" /\ rop.at <= rprev.len) =>
        /\ row.string = GraphemeRange(rprev.string, 0, rop.at)
        /\ rest.string = GraphemeRange(rprev.string, rop.at, GraphemeCount(rprev.string))
        /\ RowAppend(row, rest).string = rprev.string
        /\ RowAppend(row, rest).len = GraphemeCount(rprev.string)

\* C7 witness: a line holding a multi-codepoint cluster was split strictly
\* inside, leaving two non-empty parts.
C7_Witness ==
    /\ rop.op = "split"
    /\ 0 < rop.at /\ rop.at < rprev.len
    /\ HasMultiScalarCluster(rprev.string)
    /\ row.string /= <<>>
    /\ rest.string /= <<>>
    /\ RowAppend(row, rest).string = rprev.string

-----------------------------------------------------------------------------
(* Properties of Document::insert and Document::delete, over SpecDoc.      *)

\* s with c put before its grapheme `at`, or at the end when there is none.
WithInserted(s, at, c) ==
    GraphemeRange(s, 0, at) \o <<c>> \o GraphemeRange(s, at, GraphemeCount(s))

\* s without its grapheme `at` (s itself when there is none).
WithoutGrapheme(s, at) ==
    GraphemeRange(s, 0, at) \o GraphemeRange(s, at + 1, GraphemeCount(s))

\* What C8 says the row texts are after insert(at, c) on row texts P.
InsertedTexts(P, at, c) ==
    IF c = "\n" /\ at.y < Len(P)
    THEN SubSeq(P, 1, at.y)
         \o << GraphemeRange(P[at.y + 1], 0, at.x),
               GraphemeRange(P[at.y + 1], at.x, GraphemeCount(P[at.y + 1])) >>
         \o SubSeq(P, at.y + 2, Len(P))
    ELSE IF at.y = Len(P)
    THEN Append(P, IF c = "\n" THEN <<>> ELSE <<c>>)
    ELSE [P EXCEPT ![at.y + 1] = WithInserted(@, at.x, c)]

\* What C9 says the row texts are after delete(at) on row texts P.
DeletedTexts(P, at) ==
    IF at.x = GraphemeCount(P[at.y + 1]) /\ at.y + 1 < Len(P)
    THEN SubSeq(P, 1, at.y) \o << P[at.y + 1] \o P[at.y + 2] >> \o SubSeq(P, at.y + 3, Len(P))
    ELSE [P EXCEPT ![at.y + 1] = WithoutGrapheme(@, at.x)]

\* Every row of d has an accurate cached count.
CountsAccurate(d) == \A i \in 1..Len(d.rows) : d.rows[i].len = GraphemeCount(d.rows[i].string)

\* C8: insert(position, c) with position.line <= length splits the line at
\* the column for a newline inside the buffer, appends exactly one line at
\* position.line = length, and otherwise inserts c in place; dirty is set.
C8_InsertRoutes ==
    (dop.op = "insert" /\ dop.at.y <= Len(dprev.rows)) =>
        /\ RowTexts(doc.rows) = InsertedTexts(RowTexts(dprev.rows), dop.at, dop.c)
        /\ doc.dirty

\* C8 restricted to documents whose cached counts were accurate before the
\* insert: what is left of the claim once Row::insert's count is set aside.
C8_InsertRoutesFromAccurateCounts ==
    (dop.op = "insert" /\ dop.at.y <= Len(dprev.rows) /\ CountsAccurate(dprev)) =>
        /\ RowTexts(doc.rows) = InsertedTexts(RowTexts(dprev.rows), dop.at, dop.c)
        /\ doc.dirty

\* C9: delete(position) with position.line < length merges the next line
\* into this one when the column equals the line's grapheme length and the
\* line is not the last, and otherwise removes the grapheme at the column.
C9_DeleteMergesOrRemoves ==
    (dop.op = "delete" /\ dop.at.y < Len(dprev.rows)) =>
        RowTexts(doc.rows) = DeletedTexts(RowTexts(dprev.rows), dop.at)

\* C9 restricted to documents whose cached counts were accurate before the
\* delete.
C9_DeleteFromAccurateCounts ==
    (dop.op = "delete" /\ dop.at.y < Len(dprev.rows) /\ CountsAccurate(dprev)) =>
        RowTexts(doc.rows) = DeletedTexts(RowTexts(dprev.rows), dop.at)

\* C10: insert with position.line > length and delete with
\* position.line >= length change nothing: not the rows (text, count,
\* highlight flag), not the dirty flag, nothing else of the document.
C10_OutOfRangeEditsChangeNothing ==
    /\ (dop.op = "insert" /\ dop.at.y > Len(dprev.rows)) => doc = dprev
    /\ (dop.op = "delete" /\ dop.at.y >= Len(dprev.rows)) => doc = dprev

\* C10 witness: a delete just past the last line of a document that holds
\* both a highlighted and an unhighlighted row.
C10_Witness ==
    /\ dop.op = "delete"
    /\ dop.at.y = Len(dprev.rows)
    /\ \E i, j \in 1..Len(dprev.rows) :
          dprev.rows[i].is_highlighted /\ ~dprev.rows[j].is_highlighted
    /\ doc = dprev

-----------------------------------------------------------------------------
(* Properties of the dirty flag, over SpecFile.                            *)

\* C3 as stated: is_dirty() is true if and only if the row texts differ
\* from those at the last successful save or load.
C3_DirtyIffContentDiffers == IsDirty(doc) <=> RowTexts(doc.rows) /= saved

\* C3 amended: whenever the row texts differ from those at the last
\* successful save or load, is_dirty() is true.
C3_DirtyIfContentDiffers == RowTexts(doc.rows) /= saved => IsDirty(doc)

\* C3 witness: after a successful save of a non-empty document, an edit
\* made the texts differ from what was saved.
C3_Witness ==
    /\ saved /= <<>>
    /\ doc.file_name.some
    /\ FileExists(disk, doc.file_name.val)
    /\ disk[doc.file_name.val] = FileBytes([i \in 1..Len(saved) |-> RowFrom(saved[i])])
    /\ RowTexts(doc.rows) /= saved
    /\ IsDirty(doc)

-----------------------------------------------------------------------------
(* Properties of Editor::scroll, over SpecScroll.                          *)

\* The cursor is inside the window the offset and the terminal size give.
CursorInWindow(e) ==
    /\ e.offset.y <= e.cursor_position.y
    /\ e.cursor_position.y < e.offset.y + e.terminal.height
    /\ e.offset.x <= e.cursor_position.x
    /\ e.cursor_position.x < e.offset.x + e.terminal.width

\* The buffer has at least one line and one column.
BufferHasLineAndColumn(d) == \E i \in 1..Len(d.rows) : d.rows[i].len >= 1

\* C2 as stated: after any call of scroll the cursor is inside the window,
\* whenever the buffer has at least one line and one column.
C2_ScrollKeepsCursorInWindow ==
    (pc = "scrolled" /\ BufferHasLineAndColumn(ed.document)) => CursorInWindow(ed)

\* C2 amended: after any call of scroll the cursor is inside the window,
\* whenever the viewport has at least one row and one column.
C2_ScrollKeepsCursorInNonEmptyWindow ==
    (pc = "scrolled" /\ ed.terminal.height >= 1 /\ ed.terminal.width >= 1) =>
        CursorInWindow(ed)

\* C2 witness: scroll moved the offset down and right so that the cursor is
\* on the last row and in the last column of a non-empty window.
C2_Witness ==
    /\ pc = "scrolled"
    /\ BufferHasLineAndColumn(ed.document)
    /\ ed.terminal.height >= 1 /\ ed.terminal.width >= 1
    /\ ed.offset.y > 0 /\ ed.offset.x > 0
    /\ ed.cursor_position.y = ed.offset.y + ed.terminal.height - 1
    /\ ed.cursor_position.x = ed.offset.x + ed.terminal.width - 1

-----------------------------------------------------------------------------
(* Properties of the Editor's run loop, over Spec.                         *)

\* A key event is fully processed where the run loop is between two keys
\* or was left by a quit.
KeyFullyProcessed == pc \in {"refresh", "read", "done"}

\* The cursor is on a buffer row or on the position one past the last row,
\* and its column is at most the grapheme count of its row (0 past the end).
CursorLegal(e) ==
    /\ e.cursor_position.y <= DocLen(e.document)
    /\ e.cursor_position.x <=
          (IF e.cursor_position.y < DocLen(e.document)
           THEN GraphemeCount(e.document.rows[e.cursor_position.y + 1].string)
           ELSE 0)

\* The same with the column measured by the row's cached len.
CursorLegalByCachedLen(e) ==
    /\ e.cursor_position.y <= DocLen(e.document)
    /\ e.cursor_position.x <= RowLenAt(e.document, e.cursor_position.y)

\* C1: after any sequence of fully processed key events, 'n' and 'N'
\* included, the cursor is at a legal position.
C1_CursorAlwaysLegal == KeyFullyProcessed => CursorLegal(ed)

\* C1 with the cached lengths taken as the row lengths: the jumps of 'n' and
\* 'N' to stale search results break it on their own.
C1_CursorAlwaysLegalByCachedLen == KeyFullyProcessed => CursorLegalByCachedLen(ed)

\* C4: no key makes the processing of a key fail: the Editor never panics.
C4_KeyProcessingNeverFails == pc /= "panic"

-----------------------------------------------------------------------------
(* Properties of the highlight flags, over SpecDoc.                        *)

\* The last operation was an insert or a delete that was not an
\* out-of-range no-op.
EditedInRange ==
    \/ dop.op = "insert" /\ dop.at.y <= Len(dprev.rows)
    \/ dop.op = "delete" /\ dop.at.y < Len(dprev.rows)

\* The index of the first row an edit at row y invalidates.
FirstInvalidated(y) == IF y >= 1 THEN y - 1 ELSE 0

\* C11: after every insert or delete at p that is not an out-of-range
\* no-op, the document is dirty, every row with index >= max(p.line - 1, 0)
\* is not highlighted and every row before keeps its highlight flag.
C11_EditInvalidatesHighlight ==
    EditedInRange =>
        /\ doc.dirty
        /\ \A i \in 1..Len(doc.rows) :
              IF i - 1 >= FirstInvalidated(dop.at.y)
              THEN ~doc.rows[i].is_highlighted
              ELSE doc.rows[i].is_highlighted = dprev.rows[i].is_highlighted

\* C11 witness: an edit on the third row of a fully highlighted document
\* un-highlighted the second row and left the first one highlighted.
C11_Witness ==
    /\ EditedInRange
    /\ dop.at.y = 2
    /\ \A i \in 1..Len(dprev.rows) : dprev.rows[i].is_highlighted
    /\ Len(doc.rows) >= 2
    /\ doc.rows[1].is_highlighted
    /\ ~doc.rows[2].is_highlighted

\* The rows of doc with index in [0, n) are highlighted and are otherwise
\* as before; the other rows are exactly as before.
HighlightedBelow(n) ==
    /\ Len(doc.rows) = Len(dprev.rows)
    /\ \A i \in 1..Len(doc.rows) :
          IF i - 1 < n
          THEN doc.rows[i] = [dprev.rows[i] EXCEPT !.is_highlighted = TRUE]
          ELSE doc.rows[i] = dprev.rows[i]

\* C12 as stated: highlight(word, until_line) re-runs the Highlighter over
\* exactly the rows with index in [0, until_line], until_line included, and
\* over all rows when until_line is unspecified.
C12_HighlightThroughUntil ==
    /\ dop.op = "highlight" => HighlightedBelow(dop.at.y + 1)
    /\ dop.op = "highlight_all" => HighlightedBelow(Len(dprev.rows))

\* C12 amended: highlight(word, until) re-runs the Highlighter over exactly
\* the rows with index in [0, until), until excluded, and over all rows when
\* until is unspecified; the rows from until on are not touched.
C12_HighlightBelowUntil ==
    /\ dop.op = "highlight" => HighlightedBelow(dop.at.y)
    /\ dop.op = "highlight_all" => HighlightedBelow(Len(dprev.rows))

\* C12 witness: highlight with until = 1 on a document of three rows, none
\* highlighted, highlighted the first row and left the other two alone.
C12_Witness ==
    /\ dop.op = "highlight"
    /\ dop.at.y = 1
    /\ Len(dprev.rows) = 3
    /\ \A i \in 1..3 : ~dprev.rows[i].is_highlighted
    /\ doc.rows[1].is_highlighted
    /\ ~doc.rows[2].is_highlighted
    /\ ~doc.rows[3].is_highlighted

-----------------------------------------------------------------------------
(* Properties of Document::save, over SpecFile.                            *)

\* C13: a save that does not complete returns an error and leaves the
\* Document as it was: rows, dirty flag and file type.
C13_FailedSaveLeavesBufferUnmodified == dop.op = "save_failed" => doc = dprev

\* C13 without the file type: a save that does not complete leaves the rows,
\* the name and the dirty flag as they were.
C13_FailedSaveKeepsRowsAndDirty ==
    dop.op = "save_failed" =>
        /\ doc.rows = dprev.rows
        /\ doc.dirty = dprev.dirty
        /\ doc.file_name = dprev.file_name

-----------------------------------------------------------------------------
(* Properties of Document::find and Document::find_all, over SpecFind.     *)

\* Row y of doc holds query at grapheme column x.
HoldsAt(query, x, y) ==
    /\ y < Len(doc.rows)
    /\ x < GraphemeCount(doc.rows[y + 1].string)
    /\ IsPrefix(query, GraphemeRange(doc.rows[y + 1].string, x,
                                     GraphemeCount(doc.rows[y + 1].string)))

\* The positions find may return for query from `from`: at or after the
\* column of from on its line, anywhere on a later line.
Candidates(query, from) ==
    {p \in {Pos(x, y) : x \in 0..MaxFindLen, y \in 0..MaxFindRows} :
        /\ p.y >= from.y
        /\ p.y = from.y => p.x >= from.x
        /\ HoldsAt(query, p.x, p.y)}

\* p is before q, or is q, in line order and then in column order.
NotAfter(p, q) == p.y < q.y \/ (p.y = q.y /\ p.x <= q.x)

\* C14: find(query, from) returns the first position, in line order, at
\* which a line holds query at or after column from.column on line from.line
\* or at any column on a later line; none when there is no such position;
\* never a position on a line before from.line.
C14_FindReturnsFirstMatchFrom ==
    dop.op = "find" =>
        IF Candidates(dop.c, dop.at) = {}
        THEN dop.found = NoneV
        ELSE /\ dop.found.some
             /\ dop.found.val \in Candidates(dop.c, dop.at)
             /\ \A q \in Candidates(dop.c, dop.at) : NotAfter(dop.found.val, q)
             /\ dop.found.val.y >= dop.at.y

\* C14 witness: find from a column past the only match of its line returned
\* a match on the next line, at a column before the starting column.
C14_Witness ==
    /\ dop.op = "find"
    /\ dop.at.y = 0 /\ dop.at.x > 0
    /\ HoldsAt(dop.c, 0, 0)
    /\ dop.found.some
    /\ dop.found.val.y = 1
    /\ dop.found.val.x < dop.at.x

-----------------------------------------------------------------------------
(* Properties of the keys, over SpecKeys.                                  *)

Min(a, b) == IF a <= b THEN a ELSE b
Max(a, b) == IF a >= b THEN a ELSE b

\* The grapheme length of row y of d, 0 when there is no such row.
GraphemeLenAt(d, y) == IF y < Len(d.rows) THEN GraphemeCount(d.rows[y + 1].string) ELSE 0

\* The rows a vertical motion moves by: one, or one viewport height.
VerticalShift(op) ==
    CASE op \in {"Up", "k"} -> 0 - 1
      [] op \in {"Down", "j"} -> 1
      [] op = "PageUp" -> 0 - ed.terminal.height
      [] op = "PageDown" -> ed.terminal.height

\* The last key was a vertical motion.
MovedVertically == dop.op \in {"Up", "k", "Down", "j", "PageUp", "PageDown"}

\* The row a vertical motion from dop.at ends on: shifted, then clamped to
\* [0, buffer length].
VerticalTarget == Max(0, Min(dop.at.y + VerticalShift(dop.op), Len(dprev.rows)))

\* C16: Up/Down change the row by one and PageUp/PageDown by one viewport
\* height, clamped to [0, buffer length]; afterwards the column is the
\* minimum of the old column and the grapheme length of the resulting row.
C16_VerticalMotionClampsToNewRow ==
    MovedVertically =>
        /\ ed.document = dprev
        /\ ed.cursor_position.y = VerticalTarget
        /\ ed.cursor_position.x = Min(dop.at.x, GraphemeLenAt(dprev, VerticalTarget))

\* C16 on documents whose cached counts are accurate.
C16_VerticalMotionFromAccurateCounts ==
    (MovedVertically /\ CountsAccurate(dprev)) =>
        /\ ed.document = dprev
        /\ ed.cursor_position.y = VerticalTarget
        /\ ed.cursor_position.x = Min(dop.at.x, GraphemeLenAt(dprev, VerticalTarget))

\* The graphemes of row y of d.
GraphemesAt(d, y) == Graphemes(d.rows[y + 1].string)

\* From column x of row y of d, the end of the current run of
\* non-whitespace: the column of the first whitespace at or after x, or the
\* end of the row.
EndOfRun(d, y, x) ==
    LET gs == GraphemesAt(d, y)
        white == {i \in x..(Len(gs) - 1) : IsWhitespace(gs[i + 1][1])}
    IN  IF white /= {} THEN Least(white) ELSE Max(x, Len(gs))

\* The column reached on row y of d by skipping its leading non-alphabetic
\* characters.
AfterLeadingNonAlphabetic(d, y) ==
    LET gs == GraphemesAt(d, y)
        alpha == {i \in 0..(Len(gs) - 1) : IsAlphabetic(gs[i + 1][1])}
    IN  IF alpha /= {} THEN Least(alpha) ELSE Len(gs)

\* Where the claim puts the cursor after 'w' from `at` in d.
WordForwardTarget(d, at) ==
    IF EndOfRun(d, at.y, at.x) > at.x THEN Pos(EndOfRun(d, at.y, at.x), at.y)
    ELSE IF at.y + 1 < Len(d.rows) THEN Pos(AfterLeadingNonAlphabetic(d, at.y + 1), at.y + 1)
    ELSE at

\* The last key was 'w' in Normal mode with the cursor on a row.
MovedWordForward == dop.op = "w" /\ dop.at.y < Len(dprev.rows)

\* C17: 'w' skips to the end of the current run of non-whitespace; if that
\* does not advance the column, from any starting column, and a next line
\* exists, the cursor wraps to the next line, after its leading
\* non-alphabetic characters; the cursor never moves backwards.
C17_WordForwardAdvancesOrWraps ==
    MovedWordForward =>
        /\ ed.cursor_position = WordForwardTarget(dprev, dop.at)
        /\ NotAfter(dop.at, ed.cursor_position)

\* C17 from column 0 only, on documents whose cached counts are accurate.
C17_WordForwardFromColumnZero ==
    (MovedWordForward /\ dop.at.x = 0 /\ CountsAccurate(dprev)) =>
        /\ ed.cursor_position = WordForwardTarget(dprev, dop.at)
        /\ NotAfter(dop.at, ed.cursor_position)

\* What C18 says of the Backspace key pressed with the cursor at `at` on the
\* Document d, given the Editor e it leaves.
BackspaceAsClaimed(d, at, e) ==
    LET P == RowTexts(d.rows)
        Q == RowTexts(e.document.rows)
    IN  /\ (at.x > 0 /\ at.y < Len(P)) =>
              /\ Q = [P EXCEPT ![at.y + 1] = WithoutGrapheme(@, at.x - 1)]
              /\ e.cursor_position = Pos(at.x - 1, at.y)
        /\ (at.x = 0 /\ 0 < at.y /\ at.y < Len(P)) =>
              /\ Q = SubSeq(P, 1, at.y - 1) \o << P[at.y] \o P[at.y + 1] >>
                        \o SubSeq(P, at.y + 2, Len(P))
              /\ e.cursor_position = Pos(GraphemeCount(P[at.y]), at.y - 1)
        /\ (at.x = 0 /\ at.y = 0) =>
              /\ e.document = d
              /\ e.cursor_position = at

\* C18: Backspace at (col > 0, row) removes the grapheme at col - 1 and
\* leaves the cursor at col - 1; at (0, row), 0 < row < buffer length, it
\* moves the cursor to the end of the previous row and merges the current
\* row into it; at (0, 0) it changes neither buffer, dirty flag nor cursor.
C18_BackspaceRemovesOrMerges ==
    dop.op = "Backspace" => BackspaceAsClaimed(dprev, dop.at, ed)

\* C18 on documents whose cached counts are accurate.
C18_BackspaceFromAccurateCounts ==
    (dop.op = "Backspace" /\ CountsAccurate(dprev)) => BackspaceAsClaimed(dprev, dop.at, ed)


\* C19: a Ctrl-Q keypress sets should_quit, and the run loop then exits:
\* after the iteration that read Ctrl-Q, should_quit is set and the loop
\* has left through its break.
C19_CtrlQQuits ==
    dop.op = "CtrlQ" => (ed.should_quit /\ pc = "done")


\* The rows draw_rows paints: the rows of the Document inside the window
\* [offset.y, offset.y + height).
VisibleRows(e) ==
    {y \in 0..(Len(e.document.rows) - 1) :
        e.offset.y <= y /\ y < e.offset.y + e.terminal.height}

\* The places of the run loop where draw_rows has just painted: after
\* refresh_screen in run and in prompt, and after the loop's last draw_rows.
Painted == pc \in {"read", "prompt_read", "done"}

\* C20: no visible line is painted with stale highlight state: at every
\* redraw, every row inside [offset.y, offset.y + height) has been
\* highlighted since the last edit that invalidated it and since the last
\* change of the offset.
C20_VisibleRowsHighlightedAtRedraw ==
    Painted => \A y \in VisibleRows(ed) : ed.document.rows[y + 1].is_highlighted

\* C20 happens: a redraw of an edited buffer scrolled down, whose window
\* holds a row.
C20_Witness ==
    /\ pc = "read"
    /\ ed.document.dirty
    /\ ed.offset.y > 0
    /\ VisibleRows(ed) /= {}


\* C21: carry threading: in every highlight pass, row 0 is highlighted with
\* carry_in = false and each row i + 1 of the pass with the carry_out that
\* row i produced in the same pass; nothing of an earlier pass enters.
C21_CarryThreadedFromLineZero ==
    dop.op = "highlight" =>
        LET opts == HighlightingOptions(dprev.file_type)
        IN  /\ Len(dop.carry) = dop.at.y
            /\ dop.at.y > 0 => dop.carry[1] = FALSE
            /\ \A i \in 1..(dop.at.y - 1) :
                  dop.carry[i + 1] = RowCarryOut(dprev.rows[i], opts, dop.carry[i])

\* C21 happens: a second pass in a row, in which a row starts inside a
\* multiline comment and a later one outside it.
C21_Witness ==
    /\ dop.op = "highlight"
    /\ \E i, j \in 1..Len(dop.carry) : i < j /\ dop.carry[i] /\ ~dop.carry[j]
    /\ \E i \in 1..Len(dprev.rows) : dprev.rows[i].is_highlighted


\* The places of the loops of run and prompt just before a key is read, and
\* those just before refresh_screen.
BeforeRead == {"read", "prompt_read"}
BeforeRedraw == {"refresh", "prompt_refresh"}

\* C22: strictly sequential event loop: the step that reads a key, in run
\* or inside a prompt, leads to no other read of a key, and every step that
\* leads to a read is one redraw (the highlight pass up to the last visible
\* row, then the paint) of an Editor whose last key has been fully
\* processed, the window scrolled to the cursor.
C22_RedrawBetweenKeyReads ==
    [][ /\ pc \in BeforeRead => pc' \notin BeforeRead
        /\ pc' \in BeforeRead =>
              /\ pc \in BeforeRedraw
              /\ Scroll(ed) = ed
              /\ ed'.document =
                    DocHighlight(ed.document, Some(ed.offset.y + ed.terminal.height))
              /\ ed'.cursor_position = ed.cursor_position
              /\ ed'.offset = ed.offset ]_vars

\* C22 happens: inside the search prompt, a key was read, its callback
\* moved the cursor and the window, and the redraw before the next read has
\* run.
C22_Witness ==
    /\ pc = "prompt_read"
    /\ prompt.kind = "/"
    /\ prompt.result /= <<>>
    /\ ed.cursor_position /= prompt.old_position
    /\ ed.offset.y > 0
    /\ \A y \in VisibleRows(ed) : ed.document.rows[y + 1].is_highlighted


\* The command that the step under way runs: the answer of the ":" prompt,
\* or the command that opened the "Save as: " prompt.
CommandUnderWay ==
    IF prompt.kind = ":" THEN prompt.result
    ELSE IF prompt.kind = "Save as: " THEN prompt.command
    ELSE <<>>

\* The step sets should_quit and leaves the buffer dirty.
QuitsDirty == ~ed.should_quit /\ ed'.should_quit /\ IsDirty(ed'.document)

\* C23: quit safety: should_quit is set while the buffer is dirty only by
\* the override command 'q!'; 'q' on a dirty buffer does not quit and 'wq'
\* quits only when its save succeeded.
C23_QuitsDirtyOnlyOnOverride ==
    [][QuitsDirty => CommandUnderWay = <<"q", "!">>]_vars

\* C23 without its part on 'wq': should_quit is set while the buffer is
\* dirty only by 'q!' and 'wq'.
C23_QuitsDirtyOnlyOnOverrideOrWriteQuit ==
    [][QuitsDirty => CommandUnderWay \in {<<"q", "!">>, <<"w", "q">>}]_vars


\* The cursor `at` is legal on the Document d: on a row, at most at its
\* end, or at column 0 of the row past the last.
LegalCursor(d, at) ==
    IF at.y < Len(d.rows) THEN at.x <= GraphemeCount(d.rows[at.y + 1].string)
    ELSE at.y = Len(d.rows) /\ at.x = 0

\* Where C24 puts the cursor after the char c typed at `at`.
AfterInserted(at, c) == IF c = "\n" THEN Pos(0, at.y + 1) ELSE Pos(at.x + 1, at.y)

\* C24: in Insert mode, after a character key is processed from a legal
\* cursor the cursor sits immediately after the character just inserted:
\* one column to the right on the same row for an ordinary character,
\* column 0 of the following row for a newline.
C24_CursorFollowsInsertedChar ==
    (dop.op = "insert" /\ LegalCursor(dprev, dop.at)) =>
        ed.cursor_position = AfterInserted(dop.at, dop.c)

\* C24 for the chars other than the newline, on documents whose cached
\* counts are accurate and stay so.
C24_CursorFollowsOrdinaryChar ==
    (/\ dop.op = "insert"
     /\ dop.c /= "\n"
     /\ LegalCursor(dprev, dop.at)
     /\ CountsAccurate(dprev)
     /\ CountsAccurate(ed.document)) =>
        ed.cursor_position = AfterInserted(dop.at, dop.c)


\* C25: newline round trip: for every line index < length and every column
\* <= that line's grapheme length, the insert of a newline at (column,
\* line) followed by the delete at the same position restores the original
\* sequence of lines (same count, same text).
C25_NewlineThenDeleteRestoresLines ==
    (/\ dop.op = "newline_deleted"
     /\ dop.at.y < Len(dprev.rows)
     /\ dop.at.x <= GraphemeCount(dprev.rows[dop.at.y + 1].string)) =>
        RowTexts(doc.rows) = RowTexts(dprev.rows)

\* C25 happens: a line of several graphemes was split strictly inside and
\* joined again.
C25_Witness ==
    /\ dop.op = "newline_deleted"
    /\ dop.at.y < Len(dprev.rows)
    /\ 0 < dop.at.x
    /\ dop.at.x < GraphemeCount(dprev.rows[dop.at.y + 1].string)
    /\ Len(dprev.rows) > 1
    /\ RowTexts(doc.rows) = RowTexts(dprev.rows)


\* No row of d holds a newline.
NoNewlineInRows(d) ==
    \A i \in 1..Len(d.rows) : \A k \in 1..Len(d.rows[i].string) : d.rows[i].string[k] /= "\n"

\* Saving dprev and opening the file gave what C26 says: the file holds
\* each line followed by one newline, no line holds a newline, and the
\* Document opened has the same lines and is not dirty.
RoundTripAsClaimed ==
    /\ NoNewlineInRows(dprev)
    /\ disk[dprev.file_name.val] = FileBytes(dprev.rows)
    /\ RowTexts(doc.rows) = RowTexts(dprev.rows)
    /\ ~doc.dirty

\* C26: save/open round trip: for every buffer reachable from open or from
\* empty by inserts and deletes, save writes each line's text followed by
\* one newline (no line holds a newline), and opening the saved file yields
\* the same sequence of lines with dirty = false.
C26_SaveThenOpenYieldsSameLines ==
    dop.op = "open" => RoundTripAsClaimed

\* C26 for the buffers none of whose lines ends in a carriage return.
C26_SaveThenOpenWithoutTrailingReturn ==
    (/\ dop.op = "open"
     /\ \A i \in 1..Len(dprev.rows) :
           LET s == dprev.rows[i].string IN s = <<>> \/ s[Len(s)] /= "\r") =>
        RoundTripAsClaimed


\* The search prompt has just ended without an answer: on Esc, or on Enter
\* with an empty query.
SearchCancelled == dop.op = "search" /\ dop.query = <<>>

\* C27: a cancelled search has no lasting effect on the editing state:
\* whatever the preview did, the cursor is back where it was when '/' was
\* pressed, the lines and the dirty flag are unchanged, the remembered
\* search results are unchanged, and the search-highlight word is cleared.
C27_CancelledSearchRestoresEditingState ==
    SearchCancelled =>
        /\ ed.cursor_position = dop.at
        /\ RowTexts(ed.document.rows) = dop.lines
        /\ ed.document.dirty = dop.dirty
        /\ ed.search_results = dop.found
        /\ ed.highlighted_word = NoneV

\* C27 happens: Esc ends a search whose preview had moved the cursor, in an
\* edited buffer with search results remembered from an earlier search.
C27_Witness ==
    /\ SearchCancelled
    /\ dop.c = "Esc"
    /\ dop.previewed
    /\ dop.dirty
    /\ dop.found /= <<>>
    /\ ed.cursor_position = dop.at

====
